---- MODULE Spec2Model ----
(***************************************************************************)
(* Country / currency API (server.js): the refresh handler                 *)
(* POST /countries/refresh, the MySQL store it writes through one pooled   *)
(* connection inside a transaction, and the autocommit handlers            *)
(* (GET /status, DELETE /countries/:name) that run beside it.              *)
(*                                                                         *)
(* Store semantics are those of InnoDB at its default isolation level:     *)
(* a transaction's writes are private until COMMIT, every written row is   *)
(* X-locked until the transaction ends, plain SELECTs are consistent       *)
(* non-locking reads of committed data plus the transaction's own writes.  *)
(* A row is identified by its stored name (the stand-in for the            *)
(* AUTO_INCREMENT id).  The columns id and last_refreshed_at of table      *)
(* countries are left out: no statement of the program reads them in a     *)
(* WHERE, ORDER BY or SET clause.                                          *)
(*                                                                         *)
(* Nullable values are sequences of length <= 1: <<>> is NULL / undefined, *)
(* <<v>> is the value v.  A JS number that is the quotient of two          *)
(* integers is kept exact as [num, den]; DECIMAL(30,2) values are kept in  *)
(* hundredths.                                                             *)
(***************************************************************************)
EXTENDS Integers, Sequences, FiniteSets, TLC

\* ------------------------------------------------------------------ bounds
MaxPayload == 2    \* longest country payload a fetch returns
MaxCycles  == 2    \* refresh requests accepted in one behaviour
MaxClock   == 1    \* last value of the store's clock (NOW())

\* ------------------------------------------------------- program constants
RandomLow   == 1000   \* Math.random() * (2000 - 1000) + 1000
RandomHigh  == 2000
TopLimit    == 5      \* LIMIT 5
GdpScale    == 100    \* DECIMAL(30, 2): two decimals, kept in hundredths

Null == <<>>
Some(v) == <<v>>

Refreshers == {1, 2}

\* ------------------------------------------------------------------ inputs
\* Raw entries of the restcountries payload.  currencies holds the code of
\* each currency descriptor, in the payload's order.
Raw(n, cap, reg, pop, flag, cur) ==
    [name |-> n, capital |-> cap, region |-> reg, population |-> pop,
     flag |-> flag, currencies |-> cur]

Nigeria == Raw("Nigeria", Some("Abuja"), Some("Africa"), Some(16), Some("ng.svg"), <<"NGN">>)
NIGERIA == Raw("NIGERIA", Null, Some(""), Null, Null, <<>>)
Ghana   == Raw("Ghana", Some("Accra"), Some("Africa"), Some(0), Null, <<"GHS", "NGN">>)
Nigeria2 == Raw("Nigéria", Some("Abuja"), Some("Africa"), Some(8), Null, <<"NGN">>)

\* Country payloads the registry answers with.
SamplePayloads ==
    { <<>>, <<Nigeria>>, <<NIGERIA>>, <<Ghana>>, <<Nigeria2>>,
      <<Nigeria, NIGERIA>>, <<Ghana, Nigeria>>,
      <<Ghana, NIGERIA, Nigeria>> }

Payloads == {data \in SamplePayloads : Len(data) <= MaxPayload}

\* countriesResponse.data: a payload, or a body that is not a sequence
\* (for-of cannot iterate it), written Null.
CountryBodies == {Null} \cup {Some(data) : data \in Payloads}

\* Rate mappings of the open.er-api.com payload: code -> positive rate.
RateMappings ==
    { [c \in {"NGN"} |-> 16],
      [c \in {"NGN", "GHS"} |-> IF c = "NGN" THEN 16 ELSE 5] }

\* exchangeResponse.data.rates: a mapping, or undefined when the body has no
\* rates member.
RateBodies == {Null} \cup {Some(rates) : rates \in RateMappings}

\* Values Math.random() * (2000 - 1000) + 1000 is sampled at.
MultiplierGrid == {1000, 1999, 2000}

\* --------------------------------------------------------- pure functions
\* LOWER(): the case folding of SQL, on the names used.
Lower(s) ==
    CASE s \in {"Nigeria", "NIGERIA", "nigeria"} -> "nigeria"
      [] s \in {"Nigéria", "NIGÉRIA", "nigéria"} -> "nigéria"
      [] s \in {"Ghana", "GHANA", "ghana"}       -> "ghana"
      [] s \in {"Japan", "JAPAN", "japan"}       -> "japan"
      [] s \in {"Togo", "TOGO", "togo"}          -> "togo"
      [] s \in {"Asia", "ASIA", "asia"}          -> "asia"
      [] s \in {"JPY", "jpy"}                    -> "jpy"
      [] s \in {"Africa", "AFRICA", "africa"}    -> "africa"
      [] s \in {"NGN", "ngn"}                    -> "ngn"
      [] s \in {"GHS", "ghs"}                    -> "ghs"
      [] OTHER                                   -> s

\* The weight of a string under the collation of countries.name.  The table
\* names only its character set (DEFAULT CHARSET=utf8mb4), so the column has
\* that character set's default collation (utf8mb4_0900_ai_ci, or
\* utf8mb4_general_ci on older servers): letters that differ in case or in
\* accent weigh the same.
Weight(s) ==
    CASE Lower(s) = "nigéria" -> "nigeria"
      [] OTHER                -> Lower(s)

\* The mutant of SameKey: a binary collation.
SameKeyBinary(a, b) == a = b

\* Comparison of two strings under the collation of countries.name, as the
\* UNIQUE index and the = of a WHERE clause on the column make it.
SameKey(a, b) == Weight(a) = Weight(b)

\* JS `x || null` on an optional string: undefined, null and "" give null.
OrNull(v) == IF v = Null \/ v = Some("") THEN Null ELSE v

\* JS `country.population || 0`.
OrZero(v) == IF v = Null THEN 0 ELSE v[1]

\* JS truthiness of exchangeRates[code].
HasRate(exchangeRates, code) ==
    code \in DOMAIN exchangeRates /\ exchangeRates[code] # 0

\* The mutant of RandomMultipliers: the upper end is included.
RandomMultipliersClosed == {m \in MultiplierGrid : RandomLow <= m /\ m <= RandomHigh}

\* The values the random multiplier takes: [1000, 2000).
RandomMultipliers == {m \in MultiplierGrid : RandomLow <= m /\ m < RandomHigh}

Zero == [num |-> 0, den |-> 1]

\* The mutant of Reconcile that takes the first currency descriptor whose
\* code the mapping has, and the first descriptor when it has none.
ReconcileAnyCurrency(country, exchangeRates, randomMultiplier) ==
    LET population == OrZero(country.population)
        hasCur == Len(country.currencies) > 0
        known == {i \in 1..Len(country.currencies) :
                     HasRate(exchangeRates, country.currencies[i])}
        pick == IF known = {} THEN 1
                ELSE CHOOSE i \in known : \A j \in known : i <= j
        code == IF hasCur THEN Some(country.currencies[pick]) ELSE Null
        rated == hasCur /\ HasRate(exchangeRates, country.currencies[pick])
    IN  [name |-> country.name,
         capital |-> OrNull(country.capital),
         region |-> OrNull(country.region),
         population |-> population,
         currencyCode |-> code,
         exchangeRate |-> IF rated THEN Some(exchangeRates[code[1]]) ELSE Null,
         estimatedGdp |->
            IF ~hasCur THEN Some(Zero)
            ELSE IF rated
                 THEN Some([num |-> population * randomMultiplier,
                            den |-> exchangeRates[code[1]]])
                 ELSE Null,
         flagUrl |-> OrNull(country.flag)]

\* The mutant of Reconcile without the else branch of line 230.
ReconcileNoElse(country, exchangeRates, randomMultiplier) ==
    LET population == OrZero(country.population)
        hasCur == Len(country.currencies) > 0
        code == IF hasCur THEN Some(country.currencies[1]) ELSE Null
        rated == hasCur /\ HasRate(exchangeRates, country.currencies[1])
    IN  [name |-> country.name,
         capital |-> OrNull(country.capital),
         region |-> OrNull(country.region),
         population |-> population,
         currencyCode |-> code,
         exchangeRate |-> IF rated THEN Some(exchangeRates[code[1]]) ELSE Null,
         estimatedGdp |->
            IF rated
            THEN Some([num |-> population * randomMultiplier,
                       den |-> exchangeRates[code[1]]])
            ELSE Some(Zero),
         flagUrl |-> OrNull(country.flag)]

\* Lines 212-233: one raw country and the rate mapping to the values bound to
\* the upsert.  estimatedGdp is the exact quotient num / den.
Reconcile(country, exchangeRates, randomMultiplier) ==
    LET population == OrZero(country.population)
        hasCur == Len(country.currencies) > 0
        code == IF hasCur THEN Some(country.currencies[1]) ELSE Null
        rated == hasCur /\ HasRate(exchangeRates, country.currencies[1])
    IN  [name |-> country.name,
         capital |-> OrNull(country.capital),
         region |-> OrNull(country.region),
         population |-> population,
         currencyCode |-> code,
         exchangeRate |-> IF rated THEN Some(exchangeRates[code[1]]) ELSE Null,
         estimatedGdp |->
            IF ~hasCur THEN Some(Zero)
            ELSE IF rated
                 THEN Some([num |-> population * randomMultiplier,
                            den |-> exchangeRates[code[1]]])
                 ELSE Null,
         flagUrl |-> OrNull(country.flag)]

\* DECIMAL(30, 2) of a non-negative quotient: rounded half up, in hundredths.
ToDecimal2(q) == (2 * GdpScale * q.num + q.den) \div (2 * q.den)

\* The row an INSERT of the bound values writes.
NewRow(rec) ==
    [name |-> rec.name,
     capital |-> rec.capital,
     region |-> rec.region,
     population |-> rec.population,
     currency_code |-> rec.currencyCode,
     exchange_rate |-> rec.exchangeRate,
     estimated_gdp |-> IF rec.estimatedGdp = Null THEN Null
                       ELSE Some(ToDecimal2(rec.estimatedGdp[1])),
     flag_url |-> rec.flagUrl]

\* The mutant of UpdatedRow: the SET list has name = VALUES(name) too.
UpdatedRowRenamed(old, rec) == NewRow(rec)

\* ON DUPLICATE KEY UPDATE: every column of the SET list, and not name.
UpdatedRow(old, rec) == [NewRow(rec) EXCEPT !.name = old.name]

\* A table with a transaction's written rows laid over it, row by row.
Overlay(table, written) ==
    written \cup {row \in table : \A w \in written : w.name # row.name}

\* INSERT ... ON DUPLICATE KEY UPDATE against the rows the statement sees:
\* the row it writes.
UpsertRow(view, rec) ==
    LET dup == {row \in view : SameKey(row.name, rec.name)}
    IN  IF dup = {} THEN NewRow(rec)
        ELSE UpdatedRow(CHOOSE row \in dup : TRUE, rec)

\* The mutant of CountRows: the count runs outside the transaction and sees
\* committed rows only.
CountCommittedRows(table, written) == Cardinality(table)

\* The mutant of CountRows: only the rows the transaction wrote are counted.
CountOwnWrites(table, written) == Cardinality(written)

\* SELECT COUNT(*) FROM countries inside the transaction.
CountRows(table, written) == Cardinality(Overlay(table, written))

\* Messages of the errors thrown at lines 194 and 203.
ErrCountries == "Could not fetch data from restcountries.com"
ErrRates     == "Could not fetch data from open.er-api.com"
\* Messages of the errors the store driver rejects a statement with.
ErrUpsert     == "upsert rejected"
ErrCount      == "count rejected"
ErrUpdate     == "status update rejected"
ErrCommit     == "commit rejected"
ErrTopQuery   == "top-5 query rejected"
ErrStatusRead == "status read rejected"
ErrRollback   == "rollback rejected"
\* Messages of the TypeErrors of lines 211 and 226.
ErrNotIterable == "countries is not iterable"
ErrNoRates     == "Cannot read properties of undefined"

\* error.message.includes('Could not fetch data')
IsFetchError(msg) == msg \in {ErrCountries, ErrRates}

\* The response the catch block sends for an error message.
ErrorResponse(msg) ==
    IF IsFetchError(msg)
    THEN [code |-> 503, error |-> "External data source unavailable", details |-> Some(msg)]
    ELSE [code |-> 500, error |-> "Internal server error", details |-> Null]

NoResponse == [code |-> 0]

\* ------------------------------------------------------------------- state
VARIABLES
    countries,        \* committed rows of table countries
    refresh_status,   \* the committed row id = 1 of table refresh_status
    now,              \* the store's clock when a statement last read NOW()
    pc,               \* per request: the await the handler is suspended at
    countriesResponse,\* per request: countriesResponse.data
    exchangeRates,    \* per request: exchangeResponse.data.rates
    idx,              \* per request: position of the for-of loop in countries
    written,          \* per request: rows its open transaction has written
    statusWritten,    \* per request: its uncommitted UPDATE of refresh_status
    totalCountries,   \* per request: const totalCountries
    topCountries,     \* per request: rows of the top-5 query
    statusResult,     \* per request: statusResult[0].last_refreshed_at
    error,            \* per request: message of the error caught
    responded,        \* per request: responses it has sent
    response,         \* the response the last step sent, NoResponse if none
    released,         \* per request: connection.release() has run
    summaryPng,       \* cache/summary.png exists
    cycles,           \* refresh requests accepted so far
    refreshed         \* some refresh transaction has committed

vars == <<countries, refresh_status, now, pc, countriesResponse, exchangeRates,
          idx, written, statusWritten, totalCountries, topCountries,
          statusResult, error, responded, response, released, summaryPng,
          cycles, refreshed>>

store  == <<countries, refresh_status>>
locals == <<countriesResponse, exchangeRates, idx, written, statusWritten,
            totalCountries, topCountries, statusResult>>
counts == <<cycles, refreshed>>

\* A rate mapping without entries.
NoRates == [c \in {} |-> 0]
NoStatusWrite == <<>>

\* initDatabase (lines 70-116): both tables exist, countries is empty, and
\* INSERT IGNORE INTO refresh_status (id) VALUES (1) has filled the row from
\* the column defaults: CURRENT_TIMESTAMP and 0.
InitialStatus == [last_refreshed_at |-> Some(0), total_countries |-> 0]

Init ==
    /\ countries = {}
    /\ refresh_status = InitialStatus
    /\ now = 0
    /\ pc = [r \in Refreshers |-> "idle"]
    /\ countriesResponse = [r \in Refreshers |-> Null]
    /\ exchangeRates = [r \in Refreshers |-> Null]
    /\ idx = [r \in Refreshers |-> 0]
    /\ written = [r \in Refreshers |-> {}]
    /\ statusWritten = [r \in Refreshers |-> NoStatusWrite]
    /\ totalCountries = [r \in Refreshers |-> 0]
    /\ topCountries = [r \in Refreshers |-> <<>>]
    /\ statusResult = [r \in Refreshers |-> Null]
    /\ error = [r \in Refreshers |-> ""]
    /\ responded = [r \in Refreshers |-> 0]
    /\ response = NoResponse
    /\ released = [r \in Refreshers |-> TRUE]
    /\ summaryPng = FALSE
    /\ cycles = 0
    /\ refreshed = FALSE

\* Lines 181-195: a request arrives, takes a connection, begins a
\* transaction and issues the country fetch.
Begin(r) ==
    /\ pc[r] = "idle"
    /\ cycles < MaxCycles
    /\ cycles' = cycles + 1
    /\ pc' = [pc EXCEPT ![r] = "fetchCountries"]
    /\ error' = [error EXCEPT ![r] = ""]
    /\ responded' = [responded EXCEPT ![r] = 0]
    /\ released' = [released EXCEPT ![r] = FALSE]
    /\ response' = NoResponse
    /\ UNCHANGED <<store, now, locals, summaryPng, refreshed>>

\* throw inside the try block: control reaches the catch block, which awaits
\* connection.rollback() (line 281).
Throw(r, msg) ==
    /\ pc' = [pc EXCEPT ![r] = "rollback"]
    /\ error' = [error EXCEPT ![r] = msg]

\* Lines 190-199: the country fetch answers; the rate fetch is issued.
FetchCountriesOk(r) ==
    /\ pc[r] = "fetchCountries"
    /\ \E data \in CountryBodies :
          countriesResponse' = [countriesResponse EXCEPT ![r] = data]
    /\ pc' = [pc EXCEPT ![r] = "fetchRates"]
    /\ response' = NoResponse
    /\ UNCHANGED <<store, now, exchangeRates, idx, written, statusWritten,
                   totalCountries, topCountries, statusResult, error,
                   responded, released, summaryPng, counts>>

\* Lines 193-195: the country fetch fails.
FetchCountriesFail(r) ==
    /\ pc[r] = "fetchCountries"
    /\ Throw(r, ErrCountries)
    /\ response' = NoResponse
    /\ UNCHANGED <<store, now, locals, responded, released, summaryPng,
                   counts>>

\* After the last await before the loop or inside it: the next statement
\* the handler awaits, given the loop position reached.
AfterRow(data, i) == IF i <= Len(data) THEN "upsert" ELSE "count"

\* Lines 199-211: the rate fetch answers; the loop starts.
FetchRatesOk(r) ==
    /\ pc[r] = "fetchRates"
    /\ countriesResponse[r] # Null
    /\ \E rates \in RateBodies :
          exchangeRates' = [exchangeRates EXCEPT ![r] = rates]
    /\ idx' = [idx EXCEPT ![r] = 1]
    /\ pc' = [pc EXCEPT ![r] = AfterRow(countriesResponse[r][1], 1)]
    /\ response' = NoResponse
    /\ UNCHANGED <<store, now, countriesResponse, written, statusWritten,
                   totalCountries, topCountries, statusResult, error,
                   responded, released, summaryPng, counts>>

\* Lines 199-211: the rate fetch answers, and the country body is not a
\* sequence: countries.length is undefined and for-of throws a TypeError.
FetchRatesOkNotIterable(r) ==
    /\ pc[r] = "fetchRates"
    /\ countriesResponse[r] = Null
    /\ Throw(r, ErrNotIterable)
    /\ response' = NoResponse
    /\ UNCHANGED <<store, now, locals, responded, released, summaryPng,
                   counts>>

\* The mutant of FetchRatesFail: the failure is swallowed and the cycle goes
\* on with an empty rate mapping.
FetchRatesFailSwallowed(r) ==
    /\ pc[r] = "fetchRates"
    /\ error' = [error EXCEPT ![r] = ErrRates]
    /\ countriesResponse[r] # Null
    /\ exchangeRates' = [exchangeRates EXCEPT ![r] = Some(NoRates)]
    /\ idx' = [idx EXCEPT ![r] = 1]
    /\ pc' = [pc EXCEPT ![r] = AfterRow(countriesResponse[r][1], 1)]
    /\ response' = NoResponse
    /\ UNCHANGED <<store, now, countriesResponse, written, statusWritten,
                   totalCountries, topCountries, statusResult, responded,
                   released, summaryPng, counts>>

\* Lines 202-204: the rate fetch fails.
FetchRatesFail(r) ==
    /\ pc[r] = "fetchRates"
    /\ Throw(r, ErrRates)
    /\ response' = NoResponse
    /\ UNCHANGED <<store, now, locals, responded, released, summaryPng,
                   counts>>

\* Row locks: the names some other open transaction has written (inserted
\* or updated) and holds X-locked until it commits or rolls back.
LockedByOther(r, name) ==
    \E o \in Refreshers \ {r} : \E w \in written[o] : SameKey(w.name, name)

\* The rows a statement of r's transaction sees: committed rows and its own.
View(r) == Overlay(countries, written[r])

\* Line 226 reads exchangeRates[currencyCode]: with rates undefined it throws
\* a TypeError, for an entry that has a currency.
ReconcileThrows(r) ==
    /\ exchangeRates[r] = Null
    /\ Len(countriesResponse[r][1][idx[r]].currencies) > 0

\* The mapping line 226 reads when it does not throw.
RatesRead(r) == IF exchangeRates[r] = Null THEN NoRates ELSE exchangeRates[r][1]

\* Lines 211-233: the iteration throws before its upsert is issued.
ReconcileThrow(r) ==
    /\ pc[r] = "upsert"
    /\ ReconcileThrows(r)
    /\ Throw(r, ErrNoRates)
    /\ response' = NoResponse
    /\ UNCHANGED <<store, now, locals, responded, released, summaryPng,
                   counts>>

\* The mutant of UpsertOk: the statement runs on the pool, outside the
\* transaction, and is committed at once.
UpsertOkAutocommit(r) ==
    /\ pc[r] = "upsert"
    /\ ~ReconcileThrows(r)
    /\ LET country == countriesResponse[r][1][idx[r]]
       IN  /\ ~LockedByOther(r, country.name)
           /\ \E randomMultiplier \in RandomMultipliers :
                 LET rec == Reconcile(country, RatesRead(r), randomMultiplier)
                     row == UpsertRow(countries, rec)
                 IN  countries' = {w \in countries : w.name # row.name} \cup {row}
    /\ idx' = [idx EXCEPT ![r] = @ + 1]
    /\ pc' = [pc EXCEPT ![r] = AfterRow(countriesResponse[r][1], idx[r] + 1)]
    /\ response' = NoResponse
    /\ UNCHANGED <<refresh_status, now, countriesResponse, exchangeRates,
                   written, statusWritten, totalCountries, topCountries,
                   statusResult, error, responded, released, summaryPng,
                   counts>>

\* Lines 211-249, one iteration: reconcile countries[idx] with a fresh random
\* multiplier and run the upsert, which waits while another transaction
\* holds the row; then the next iteration's upsert, or the count, is issued.
UpsertOk(r) ==
    /\ pc[r] = "upsert"
    /\ ~ReconcileThrows(r)
    /\ LET country == countriesResponse[r][1][idx[r]]
       IN  /\ ~LockedByOther(r, country.name)
           /\ \E randomMultiplier \in RandomMultipliers :
                 LET rec == Reconcile(country, RatesRead(r), randomMultiplier)
                     row == UpsertRow(View(r), rec)
                 IN  written' = [written EXCEPT ![r] =
                                   {w \in @ : w.name # row.name} \cup {row}]
    /\ idx' = [idx EXCEPT ![r] = @ + 1]
    /\ pc' = [pc EXCEPT ![r] = AfterRow(countriesResponse[r][1], idx[r] + 1)]
    /\ response' = NoResponse
    /\ UNCHANGED <<store, now, countriesResponse, exchangeRates,
                   statusWritten, totalCountries, topCountries, statusResult,
                   error, responded, released, summaryPng, counts>>

\* The upsert is rejected by the store (lock wait timeout, deadlock victim,
\* lost connection).
UpsertFail(r) ==
    /\ pc[r] = "upsert"
    /\ Throw(r, ErrUpsert)
    /\ response' = NoResponse
    /\ UNCHANGED <<store, now, locals, responded, released, summaryPng,
                   counts>>

\* Lines 252-257: the count answers; the status update is issued.
CountOk(r) ==
    /\ pc[r] = "count"
    /\ totalCountries' = [totalCountries EXCEPT ![r] = CountRows(countries, written[r])]
    /\ pc' = [pc EXCEPT ![r] = "updateStatus"]
    /\ response' = NoResponse
    /\ UNCHANGED <<store, now, countriesResponse, exchangeRates, idx,
                   written, statusWritten, topCountries, statusResult, error,
                   responded, released, summaryPng, counts>>

CountFail(r) ==
    /\ pc[r] = "count"
    /\ Throw(r, ErrCount)
    /\ response' = NoResponse
    /\ UNCHANGED <<store, now, locals, responded, released, summaryPng,
                   counts>>

\* Lines 255-259: UPDATE refresh_status ... WHERE id = 1, which waits while
\* another transaction holds the row, and stamps NOW(), the time the store's
\* clock has reached when the statement runs; then COMMIT is issued.
UpdateStatusOk(r) ==
    /\ pc[r] = "updateStatus"
    /\ \A o \in Refreshers \ {r} : statusWritten[o] = NoStatusWrite
    /\ \E t \in now..MaxClock :
          /\ now' = t
          /\ statusWritten' = [statusWritten EXCEPT ![r] =
                Some([last_refreshed_at |-> Some(t),
                      total_countries |-> totalCountries[r]])]
    /\ pc' = [pc EXCEPT ![r] = "commit"]
    /\ response' = NoResponse
    /\ UNCHANGED <<store, countriesResponse, exchangeRates, idx, written,
                   totalCountries, topCountries, statusResult, error,
                   responded, released, summaryPng, counts>>

UpdateStatusFail(r) ==
    /\ pc[r] = "updateStatus"
    /\ Throw(r, ErrUpdate)
    /\ response' = NoResponse
    /\ UNCHANGED <<store, now, locals, responded, released, summaryPng,
                   counts>>

\* What COMMIT makes of the committed rows.
CommittedRows(table, rows) == Overlay(table, rows)

\* Line 259: COMMIT publishes the written rows and the status row at once
\* and releases the locks; the top-5 query is issued.  The rate mapping and
\* the loop position are not read again.
CommitOk(r) ==
    /\ pc[r] = "commit"
    /\ countries' = CommittedRows(countries, written[r])
    /\ refresh_status' = statusWritten[r][1]
    /\ written' = [written EXCEPT ![r] = {}]
    /\ statusWritten' = [statusWritten EXCEPT ![r] = NoStatusWrite]
    /\ exchangeRates' = [exchangeRates EXCEPT ![r] = Null]
    /\ idx' = [idx EXCEPT ![r] = 0]
    /\ refreshed' = TRUE
    /\ pc' = [pc EXCEPT ![r] = "topQuery"]
    /\ response' = NoResponse
    /\ UNCHANGED <<now, countriesResponse, totalCountries, topCountries,
                   statusResult, error, responded, released, summaryPng,
                   cycles>>

CommitFail(r) ==
    /\ pc[r] = "commit"
    /\ Throw(r, ErrCommit)
    /\ response' = NoResponse
    /\ UNCHANGED <<store, now, locals, responded, released, summaryPng,
                   counts>>

Min(a, b) == IF a < b THEN a ELSE b

\* SELECT name, estimated_gdp FROM countries WHERE estimated_gdp IS NOT NULL
\* ORDER BY estimated_gdp DESC LIMIT 5: every result the store may return
\* (rows of equal estimated_gdp come in any order).
TopQueryResults(table) ==
    LET S == {row \in table : row.estimated_gdp # Null}
        n == Min(Cardinality(S), TopLimit)
        gdp(row) == row.estimated_gdp[1]
    IN  { [i \in 1..n |-> [name |-> s[i].name, estimated_gdp |-> s[i].estimated_gdp]] :
          s \in { t \in [1..n -> S] :
                    /\ \A i, j \in 1..n : i < j => t[i] # t[j] /\ gdp(t[i]) >= gdp(t[j])
                    /\ \A row \in S : (\A i \in 1..n : t[i] # row) =>
                                         \A i \in 1..n : gdp(t[i]) >= gdp(row) } }

\* Lines 264-271: the top-5 query answers (outside any transaction: it reads
\* what is committed now); the status read is issued.
TopQueryOk(r) ==
    /\ pc[r] = "topQuery"
    /\ \E rows \in TopQueryResults(countries) :
          topCountries' = [topCountries EXCEPT ![r] = rows]
    /\ pc' = [pc EXCEPT ![r] = "statusRead"]
    /\ response' = NoResponse
    /\ UNCHANGED <<store, now, countriesResponse, exchangeRates, idx,
                   written, statusWritten, totalCountries, statusResult,
                   error, responded, released, summaryPng, counts>>

TopQueryFail(r) ==
    /\ pc[r] = "topQuery"
    /\ Throw(r, ErrTopQuery)
    /\ response' = NoResponse
    /\ UNCHANGED <<store, now, locals, responded, released, summaryPng,
                   counts>>

\* Lines 271-272: the status read answers; generateSummaryImage is called.
StatusReadOk(r) ==
    /\ pc[r] = "statusRead"
    /\ statusResult' = [statusResult EXCEPT ![r] = refresh_status.last_refreshed_at]
    /\ pc' = [pc EXCEPT ![r] = "generate"]
    /\ response' = NoResponse
    /\ UNCHANGED <<store, now, countriesResponse, exchangeRates, idx,
                   written, statusWritten, totalCountries, topCountries,
                   error, responded, released, summaryPng, counts>>

StatusReadFail(r) ==
    /\ pc[r] = "statusRead"
    /\ Throw(r, ErrStatusRead)
    /\ response' = NoResponse
    /\ UNCHANGED <<store, now, locals, responded, released, summaryPng,
                   counts>>

\* The handler's locals once it has returned.
Forget(r) ==
    /\ countriesResponse' = [countriesResponse EXCEPT ![r] = Null]
    /\ exchangeRates' = [exchangeRates EXCEPT ![r] = Null]
    /\ idx' = [idx EXCEPT ![r] = 0]
    /\ written' = [written EXCEPT ![r] = {}]
    /\ statusWritten' = [statusWritten EXCEPT ![r] = NoStatusWrite]
    /\ totalCountries' = [totalCountries EXCEPT ![r] = 0]
    /\ topCountries' = [topCountries EXCEPT ![r] = <<>>]
    /\ statusResult' = [statusResult EXCEPT ![r] = Null]
    /\ error' = [error EXCEPT ![r] = ""]

\* Lines 274-278 and 292-294: the success response, then finally.
Succeed(r) ==
    /\ response' = [code |-> 200,
                    message |-> "Countries data refreshed successfully",
                    total_countries |-> totalCountries[r],
                    last_refreshed_at |-> statusResult[r]]
    /\ responded' = [responded EXCEPT ![r] = @ + 1]
    /\ released' = [released EXCEPT ![r] = TRUE]
    /\ pc' = [pc EXCEPT ![r] = "idle"]
    /\ Forget(r)

\* Lines 119-174 and 272-278: generateSummaryImage writes cache/summary.png
\* and returns; the handler answers and releases the connection.
GenerateOk(r) ==
    /\ pc[r] = "generate"
    /\ summaryPng' = TRUE
    /\ Succeed(r)
    /\ UNCHANGED <<store, now, counts>>

\* The mutant of GenerateFail: the generator's error reaches the handler.
GenerateFailPropagates(r) ==
    /\ pc[r] = "generate"
    /\ Throw(r, "summary image not generated")
    /\ response' = NoResponse
    /\ UNCHANGED <<store, now, locals, responded, released, summaryPng,
                   counts>>

\* Lines 175-177: generateSummaryImage fails inside its own try block, logs
\* and returns; the handler goes on as above.
GenerateFail(r) ==
    /\ pc[r] = "generate"
    /\ Succeed(r)
    /\ UNCHANGED <<store, now, summaryPng, counts>>

\* The mutant of RollbackOk: the catch block regenerates the summary image.
RollbackOkGenerates(r) ==
    /\ pc[r] = "rollback"
    /\ response' = ErrorResponse(error[r])
    /\ responded' = [responded EXCEPT ![r] = @ + 1]
    /\ released' = [released EXCEPT ![r] = TRUE]
    /\ pc' = [pc EXCEPT ![r] = "idle"]
    /\ Forget(r)
    /\ summaryPng' = TRUE
    /\ UNCHANGED <<store, now, counts>>

\* Lines 281-294: ROLLBACK answers: the transaction's writes are dropped and
\* its locks released; the catch block answers by the error message; finally
\* releases the connection.
RollbackOk(r) ==
    /\ pc[r] = "rollback"
    /\ response' = ErrorResponse(error[r])
    /\ responded' = [responded EXCEPT ![r] = @ + 1]
    /\ released' = [released EXCEPT ![r] = TRUE]
    /\ pc' = [pc EXCEPT ![r] = "idle"]
    /\ Forget(r)
    /\ UNCHANGED <<store, now, summaryPng, counts>>

\* Line 281 rejects (the connection is gone, and with it the transaction):
\* the rejection leaves the catch block, finally releases the connection and
\* the handler's promise rejects.  Express 4 drops that rejection and no
\* response is sent; Express 5 hands it to the error handler of lines
\* 445-448.  The repository does not pin the version.
RollbackFail(r) ==
    /\ pc[r] = "rollback"
    /\ \E forwarded \in BOOLEAN :
          IF forwarded
          THEN /\ response' = ErrorResponse(ErrRollback)
               /\ responded' = [responded EXCEPT ![r] = @ + 1]
          ELSE /\ response' = NoResponse
               /\ UNCHANGED responded
    /\ released' = [released EXCEPT ![r] = TRUE]
    /\ pc' = [pc EXCEPT ![r] = "idle"]
    /\ Forget(r)
    /\ UNCHANGED <<store, now, summaryPng, counts>>

\* ------------------------------------------------- handlers on the pool
\* A locking statement of another connection scans the whole table (the
\* WHERE clause wraps the column in LOWER()) and waits at any row an open
\* transaction has written.
NoRowLocks == \A r \in Refreshers : written[r] = {}

\* req.params.name of the requests made.
DeleteNames == {"nigeria", "Nigéria"}
LookupNames == {"nigeria", "NIGERIA", "Nigéria", "ghana", "togo", "image"}

\* ... WHERE LOWER(name) = LOWER(?): the rows the clause selects.
Matching(table, name) == {row \in table : SameKey(Lower(row.name), Lower(name))}

\* Lines 379-390: the delete removes the matching rows and answers 200.
DeleteOk(name) ==
    /\ NoRowLocks
    /\ Matching(countries, name) # {}
    /\ countries' = countries \ Matching(countries, name)
    /\ response' = NoResponse
    /\ UNCHANGED <<refresh_status, now, pc, locals, error, responded,
                   released, summaryPng, counts>>

\* Lines 386-388: affectedRows = 0, answered 404; nothing is written.
DeleteNotFound(name) ==
    /\ NoRowLocks
    /\ Matching(countries, name) = {}
    /\ UNCHANGED vars

\* Lines 391-394: the store rejects the statement, answered 500.
DeleteFail(name) ==
    /\ UNCHANGED vars

\* Lines 400-412: what GET /status answers from the rows its SELECT returns.
StatusBody(rows) ==
    IF rows = {} THEN [total_countries |-> 0, last_refreshed_at |-> Null]
    ELSE LET row == CHOOSE x \in rows : TRUE
         IN  [total_countries |-> row.total_countries,
              last_refreshed_at |-> row.last_refreshed_at]

\* What a consistent read on a pool connection returns: committed data.
ReadRows == countries

NotFound == [code |-> 404, error |-> "Country not found"]

\* `c.exchange_rate ? parseFloat(c.exchange_rate) : null` on a DECIMAL
\* column, which the driver returns as a string (never empty) or null: the
\* number the string denotes, here in the unit the column is kept in.
ParseDecimal(v) == IF v = Null THEN Null ELSE Some(v[1])

\* Lines 329-340 and 360-371: the JSON object sent for a row.
CountryJson(c) ==
    [name |-> c.name,
     capital |-> c.capital,
     region |-> c.region,
     population |-> c.population,
     currency_code |-> c.currency_code,
     exchange_rate |-> ParseDecimal(c.exchange_rate),
     estimated_gdp |-> ParseDecimal(c.estimated_gdp),
     flag_url |-> c.flag_url]

\* Lines 350-371: what GET /countries/:name answers from the rows its
\* SELECT returns: 404, or 200 with the first row.
GetCountryBodies(rows) ==
    IF rows = {} THEN {NotFound}
    ELSE {[code |-> 200, country |-> CountryJson(c)] : c \in rows}

\* Lines 348-371: GET /countries/:name answers from the rows its SELECT
\* returns; nothing is written.
GetCountry(name) ==
    /\ response' \in GetCountryBodies(Matching(ReadRows, name))
    /\ UNCHANGED <<store, now, pc, locals, error, responded, released,
                   summaryPng, counts>>

\* Lines 373-375 and 342-344: the catch block of a read handler.
InternalError == [code |-> 500, error |-> "Internal server error"]

\* Lines 350-352, 373-375: the SELECT of GET /countries/:name fails.
GetCountryFail ==
    /\ response' = InternalError
    /\ UNCHANGED <<store, now, pc, locals, error, responded, released,
                   summaryPng, counts>>

\* req.query of the list requests made: region and currency are absent
\* (Null) or strings, sort is absent or a string.
Query(region, currency, sort) ==
    [region |-> region, currency |-> currency, sort |-> sort]

ListQueries ==
    {Query(region, currency, Null) :
        region \in {Null, Some(""), Some("Africa"), Some("africa"), Some("Asia"),
                    Some("Europe")},
        currency \in {Null, Some("NGN"), Some("JPY"), Some("EUR")}}
    \cup {Query(Null, Null, Some(sort)) :
             sort \in {"name_asc", "gdp_desc", "gdp_asc", "population_desc",
                       "population_asc", "gdp"}}
    \cup {Query(Some("Africa"), Null, Some(sort)) : sort \in {"gdp_desc", "gdp_asc"}}
    \cup {Query(Null, Some("ngn"), Null)}

\* JS truthiness of a query parameter: `if (region)`.
Truthy(param) == param # Null /\ param # Some("")

\* `column = ?`: NULL equals nothing; strings compare under the collation.
ColumnEquals(column, param) == column # Null /\ SameKey(column[1], param[1])

\* Lines 302-313: the rows WHERE 1=1 [AND region = ?] [AND currency_code = ?]
\* selects.
Filtered(table, query) ==
    {c \in table :
        /\ Truthy(query.region) => ColumnEquals(c.region, query.region)
        /\ Truthy(query.currency) => ColumnEquals(c.currency_code, query.currency)}

\* Lines 315-325: the ORDER BY clause for req.query.sort.
OrderBy(sort) ==
    CASE sort = Some("gdp_desc")        -> [column |-> "estimated_gdp", desc |-> TRUE]
      [] sort = Some("gdp_asc")         -> [column |-> "estimated_gdp", desc |-> FALSE]
      [] sort = Some("population_desc") -> [column |-> "population", desc |-> TRUE]
      [] sort = Some("population_asc")  -> [column |-> "population", desc |-> FALSE]
      [] OTHER                          -> [column |-> "name", desc |-> FALSE]

\* The rank of a name in the order of the collation, on the names used.
NameRank(name) ==
    CASE Weight(name) = "ghana"   -> 1
      [] Weight(name) = "japan"   -> 2
      [] Weight(name) = "nigeria" -> 3
      [] Weight(name) = "togo"    -> 4
      [] OTHER                    -> 0

\* The value ORDER BY compares for a row: NULL sorts below every value.
SortKey(column, c) ==
    CASE column = "estimated_gdp" ->
            IF c.estimated_gdp = Null THEN -1 ELSE c.estimated_gdp[1]
      [] column = "population"    -> c.population
      [] OTHER                    -> NameRank(c.name)

\* The mutant of MayPrecede: the SELECT has no ORDER BY.
MayPrecedeUnordered(order, a, b) == TRUE

\* ORDER BY lets row a come before row b.
MayPrecede(order, a, b) ==
    IF order.desc THEN SortKey(order.column, a) >= SortKey(order.column, b)
    ELSE SortKey(order.column, a) <= SortKey(order.column, b)

\* Lines 302-327: every sequence of rows the SELECT may return (rows the
\* order does not separate come in any order).
SelectCountries(table, query) ==
    LET S == Filtered(table, query)
        n == Cardinality(S)
        order == OrderBy(query.sort)
    IN  {t \in [1..n -> S] :
           /\ \A i, j \in 1..n : i # j => t[i] # t[j]
           /\ \A i, j \in 1..n : i < j => MayPrecede(order, t[i], t[j])}

\* Lines 327-340: what GET /countries answers on a table: 200 with the rows
\* mapped to JSON objects.
ListAnswers(table, query) ==
    {[code |-> 200, body |-> [i \in 1..Len(t) |-> CountryJson(t[i])]] :
        t \in SelectCountries(table, query)}

\* Lines 298-340: GET /countries answers the rows its SELECT returns;
\* nothing is written.
GetCountries(query) ==
    /\ response' \in ListAnswers(ReadRows, query)
    /\ UNCHANGED <<store, now, pc, locals, error, responded, released,
                   summaryPng, counts>>

\* Lines 327, 342-344: the SELECT of GET /countries fails.
GetCountriesFail ==
    /\ response' = InternalError
    /\ UNCHANGED <<store, now, pc, locals, error, responded, released,
                   summaryPng, counts>>

\* Lines 386-390: what DELETE /countries/:name answers for affectedRows.
DeleteBody(affectedRows) ==
    IF affectedRows = 0 THEN NotFound
    ELSE [code |-> 200, message |-> "Country deleted successfully"]

ReadStatusRows == {refresh_status}

\* Lines 398-412: GET /status answers StatusBody(ReadStatusRows).
GetStatus ==
    /\ UNCHANGED vars

\* Lines 298, 348, 398, 420, 431: the GET routes in the order app.get
\* registers them. A path is the sequence of its segments.
GetRoutes ==
    << [pattern |-> <<"countries">>,          handler |-> "list"],
       [pattern |-> <<"countries", ":name">>, handler |-> "lookup"],
       [pattern |-> <<"status">>,             handler |-> "status"],
       [pattern |-> <<"countries", "image">>, handler |-> "image"],
       [pattern |-> <<>>,                     handler |-> "health"] >>

\* The paths GET requests are made with.
RequestPaths ==
    {<<"countries", "image">>, <<"countries", "Ghana">>, <<"countries">>,
     <<"status">>, <<>>, <<"image">>}

\* A route pattern matches a path: a parameter matches any one segment.
Matches(pattern, path) ==
    /\ Len(pattern) = Len(path)
    /\ \A i \in 1..Len(path) : pattern[i] = ":name" \/ pattern[i] = path[i]

\* The router passes a request to the first registered route that matches
\* its path; every handler answers without calling next(), so no later
\* route sees the request. Line 440: no route matches.
Handler(path) ==
    IF \E i \in 1..Len(GetRoutes) : Matches(GetRoutes[i].pattern, path)
    THEN LET first == CHOOSE i \in 1..Len(GetRoutes) :
                          /\ Matches(GetRoutes[i].pattern, path)
                          /\ \A j \in 1..(i - 1) : ~Matches(GetRoutes[j].pattern, path)
         IN  GetRoutes[first].handler
    ELSE "none"

\* Lines 420-428: what the handler of /countries/image answers: the file
\* cache/summary.png when fs.access finds it.
ImageAnswer(png) ==
    IF png THEN [code |-> 200, file |-> "cache/summary.png"]
    ELSE [code |-> 404, error |-> "Summary image not found"]

\* What a GET of a path may be answered, by the handler it is passed to.
Answers(path) ==
    CASE Handler(path) = "list" ->
            ListAnswers(ReadRows, Query(Null, Null, Null)) \cup {InternalError}
      [] Handler(path) = "lookup" ->
            GetCountryBodies(Matching(ReadRows, path[2])) \cup {InternalError}
      [] Handler(path) = "status" ->
            {[code |-> 200, summary |-> StatusBody(ReadStatusRows)], InternalError}
      [] Handler(path) = "image" -> {ImageAnswer(summaryPng)}
      [] Handler(path) = "health" -> {[code |-> 200, health |-> "healthy"]}
      [] OTHER -> {[code |-> 404, error |-> "Endpoint not found"]}

\* A GET request for a path is answered.
Get(path) ==
    /\ response' \in Answers(path)
    /\ UNCHANGED <<store, now, pc, locals, error, responded, released,
                   summaryPng, counts>>

Refresh(r) ==
    \/ Begin(r)
    \/ FetchCountriesOk(r) \/ FetchCountriesFail(r)
    \/ FetchRatesOk(r) \/ FetchRatesOkNotIterable(r) \/ FetchRatesFail(r)
    \/ ReconcileThrow(r) \/ UpsertOk(r) \/ UpsertFail(r)
    \/ CountOk(r) \/ CountFail(r)
    \/ UpdateStatusOk(r) \/ UpdateStatusFail(r)
    \/ CommitOk(r) \/ CommitFail(r)
    \/ TopQueryOk(r) \/ TopQueryFail(r)
    \/ StatusReadOk(r) \/ StatusReadFail(r)
    \/ GenerateOk(r) \/ GenerateFail(r)
    \/ RollbackOk(r) \/ RollbackFail(r)

Delete(name) == DeleteOk(name) \/ DeleteNotFound(name) \/ DeleteFail(name)

Next ==
    \/ \E r \in Refreshers : Refresh(r)
    \/ \E name \in DeleteNames : Delete(name)
    \/ GetStatus

Spec == Init /\ [][Next]_vars

\* ------------------------------------------- the handlers that read
\* The read handlers (GET /countries, GET /countries/:name) and the delete,
\* on every table of up to three records that refreshes leave behind, with
\* no refresh in flight.
Japan == Raw("Japan", Some("Tokyo"), Some("Asia"), Some(8), Some("jp.svg"), <<"JPY">>)

StoredRateMappings ==
    RateMappings \cup
    {[c \in {"NGN", "GHS", "JPY"} |-> CASE c = "NGN" -> 16 [] c = "GHS" -> 5 [] OTHER -> 4]}

\* The rows a refresh inserts for the sample entries.
StoredRows ==
    {NewRow(Reconcile(country, rates, randomMultiplier)) :
        country \in {Nigeria, NIGERIA, Ghana, Japan},
        rates \in StoredRateMappings,
        randomMultiplier \in RandomMultipliers}

\* The tables of such rows the UNIQUE index on name admits.
StoredTables ==
    {table \in SUBSET StoredRows :
        \A a, b \in table : SameKey(a.name, b.name) => a = b}

InitReads ==
    /\ countries \in StoredTables
    /\ refresh_status = [last_refreshed_at |-> Some(0),
                         total_countries |-> Cardinality(countries)]
    /\ now = 0
    /\ pc = [r \in Refreshers |-> "idle"]
    /\ countriesResponse = [r \in Refreshers |-> Null]
    /\ exchangeRates = [r \in Refreshers |-> Null]
    /\ idx = [r \in Refreshers |-> 0]
    /\ written = [r \in Refreshers |-> {}]
    /\ statusWritten = [r \in Refreshers |-> NoStatusWrite]
    /\ totalCountries = [r \in Refreshers |-> 0]
    /\ topCountries = [r \in Refreshers |-> <<>>]
    /\ statusResult = [r \in Refreshers |-> Null]
    /\ error = [r \in Refreshers |-> ""]
    /\ responded = [r \in Refreshers |-> 0]
    /\ response = NoResponse
    /\ released = [r \in Refreshers |-> TRUE]
    /\ summaryPng \in BOOLEAN
    /\ cycles = 0
    /\ refreshed = TRUE

NextReads ==
    \/ \E query \in ListQueries : GetCountries(query)
    \/ GetCountriesFail
    \/ \E name \in LookupNames : GetCountry(name)
    \/ GetCountryFail
    \/ \E path \in RequestPaths : Get(path)
    \/ \E name \in DeleteNames : Delete(name)

SpecReads == InitReads /\ [][NextReads]_vars

\* --------------------------------------------- refreshes in succession
\* One client issuing refreshes one after another on a store earlier
\* refreshes have filled, nothing else running.
NextSuccession == Refresh(1)

SpecSuccession == InitReads /\ [][NextSuccession]_vars

\* Every await of the handler settles: the fetches carry a timeout, and a
\* statement of the store answers or is rejected.
FairSuccession == SpecSuccession /\ WF_vars(NextSuccession)

\* ------------------------------------------ deletes beside one refresher
\* One client issuing refreshes one after another while deletes arrive.
NextWithDeletes ==
    \/ Refresh(1)
    \/ \E name \in DeleteNames : Delete(name)

SpecWithDeletes == Init /\ [][NextWithDeletes]_vars

\* ================================================================ claims
\* r took a step of its handler.
Stepped(r) == pc'[r] # pc[r] \/ idx'[r] # idx[r]

\* The names of a payload, and of a table's rows, as the collation of the
\* name column tells them apart.
PayloadKeys(data) == {Weight(data[i].name) : i \in 1..Len(data)}
StoredKeys(table) == {Weight(row.name) : row \in table}

\* The case-folded names of a payload.
CaseFolded(data) == {Lower(data[i].name) : i \in 1..Len(data)}

StoreUnchanged == countries' = countries /\ refresh_status' = refresh_status

GenericError == [code |-> 500, error |-> "Internal server error", details |-> Null]

\* C1: every step of a refresh cycle up to and including its fetches, and
\* every step it takes after one of the two fetches has failed, leaves the
\* committed rows of countries and the refresh_status row as they were; the
\* cycle has written nothing when a fetch fails.
C1_FetchFailureLeavesStore ==
    [][\A r \in Refreshers :
         (Stepped(r) /\ (pc[r] \in {"idle", "fetchCountries", "fetchRates"}
                         \/ IsFetchError(error[r])))
         => /\ StoreUnchanged
            /\ written[r] = {} /\ statusWritten[r] = NoStatusWrite]_vars

\* C1 witness: a refresh has just been answered 503 for a failed rate fetch
\* while rows of an earlier refresh are stored.
C1_Witness ==
    /\ response.code = 503
    /\ response.details = Some(ErrRates)
    /\ countries # {}
    /\ refreshed

\* C2 (as claimed): when an upsert or the status update is rejected, the
\* step that handles the error commits nothing, drops the rows written
\* earlier in the cycle, and answers with the generic internal error.
C2_StoreFailureAnswered500 ==
    [][\A r \in Refreshers :
         (Stepped(r) /\ pc[r] = "rollback" /\ error[r] \in {ErrUpsert, ErrUpdate})
         => /\ StoreUnchanged
            /\ written'[r] = {} /\ statusWritten'[r] = NoStatusWrite
            /\ responded'[r] = 1
            /\ response' = GenericError]_vars

\* C2, the part the code keeps: nothing written in a cycle whose upsert or
\* status update was rejected is committed, and a response, if one is sent,
\* is the generic internal error.
C2_StoreFailureCommitsNothing ==
    [][\A r \in Refreshers :
         (Stepped(r) /\ pc[r] = "rollback" /\ error[r] \in {ErrUpsert, ErrUpdate})
         => /\ StoreUnchanged
            /\ written'[r] = {} /\ statusWritten'[r] = NoStatusWrite
            /\ responded'[r] <= 1
            /\ (responded'[r] = 1 => response' = GenericError)]_vars

\* C3: what a read on the pool returns changes, by a step of a refresh, only
\* at that refresh's COMMIT, and then to the rows before it with the whole
\* batch laid over them together with the batch's status row; the only other
\* change is a delete's.
C3_ReadersSeeWholeBatches ==
    [][(ReadRows' # ReadRows \/ ReadStatusRows' # ReadStatusRows)
       => \/ \E r \in Refreshers :
                /\ pc[r] = "commit" /\ pc'[r] = "topQuery"
                /\ \A o \in Refreshers \ {r} : pc'[o] = pc[o] /\ idx'[o] = idx[o]
                /\ ReadRows' = Overlay(ReadRows, written[r])
                /\ ReadStatusRows' = {statusWritten[r][1]}
          \/ /\ \A r \in Refreshers : ~Stepped(r)
             /\ ReadStatusRows' = ReadStatusRows
             /\ \E name \in DeleteNames :
                   ReadRows' = ReadRows \ Matching(ReadRows, name)]_vars

\* C3 witness: a refresh is part-way through its batch, one row written and
\* one to go, and a read on the pool does not see the written row.
C3_Witness ==
    \E r \in Refreshers :
       /\ pc[r] = "upsert"
       /\ written[r] # {}
       /\ ReadRows # View(r)

\* C4 (as claimed): no two refreshes hold uncommitted writes at once, and,
\* as after any serial run of refreshes and deletes, the committed
\* total_countries is never below the number of committed rows.
HoldsWrites(r) == written[r] # {} \/ statusWritten[r] # NoStatusWrite
OneWriter == \A r, o \in Refreshers : (HoldsWrites(r) /\ HoldsWrites(o)) => r = o
TotalCoversRows == Cardinality(countries) <= refresh_status.total_countries
C4_RefreshesSerialize == OneWriter /\ TotalCoversRows

\* C5 (as claimed): the total_countries a refresh commits is the number of
\* distinct case-folded names of its payload.
C5_TotalIsPayloadNames ==
    [][\A r \in Refreshers :
         (pc[r] = "commit" /\ pc'[r] = "topQuery")
         => refresh_status'.total_countries =
               Cardinality(CaseFolded(countriesResponse[r][1]))]_vars

\* C5 (amended): the total_countries a refresh commits is the number it
\* counted, which is the number of distinct names, as the collation of the
\* name column tells them apart, among its payload and the rows committed
\* when it counted.
C5_TotalIsRowCount ==
    [][\A r \in Refreshers :
         /\ (pc[r] = "count" /\ pc'[r] = "updateStatus")
            => totalCountries'[r] =
                  Cardinality(PayloadKeys(countriesResponse[r][1]) \cup StoredKeys(countries))
         /\ (pc[r] = "commit" /\ pc'[r] = "topQuery")
            => refresh_status'.total_countries = totalCountries[r]]_vars

\* C5 witness: a refresh of a one-name payload has just committed a total of
\* two, a row of an earlier refresh being stored under another name.
C5_Witness ==
    \E r \in Refreshers :
       /\ pc[r] = "topQuery"
       /\ Cardinality(PayloadKeys(countriesResponse[r][1])) = 1
       /\ totalCountries[r] = 2
       /\ refresh_status.total_countries = 2

\* C6 (as claimed): until a refresh has committed, GET /status answers
\* total_countries 0 and last_refreshed_at null.
C6_StatusDefaultsUntilRefreshed ==
    ~refreshed =>
       StatusBody(ReadStatusRows) = [total_countries |-> 0, last_refreshed_at |-> Null]

\* The records reconciliation can produce for the entry the loop of r is at.
Reconciled(r) ==
    IF ReconcileThrows(r) THEN {}
    ELSE {Reconcile(countriesResponse[r][1][idx[r]], RatesRead(r), m) :
             m \in RandomMultipliers}

\* C7: a record reconciled from an entry without currencies has
\* currencyCode and exchangeRate null and estimatedGdp 0; from an entry whose
\* first currency code the mapping lacks, that code, exchangeRate null and
\* estimatedGdp null; from an entry whose first code the mapping has, that
\* code, the mapped rate and an estimatedGdp that is not null.
C7_NullPropagation ==
    \A r \in Refreshers :
       pc[r] = "upsert" =>
          LET country == countriesResponse[r][1][idx[r]]
              rates == RatesRead(r)
          IN  \A rec \in Reconciled(r) :
                 IF country.currencies = <<>>
                 THEN /\ rec.currencyCode = Null
                      /\ rec.exchangeRate = Null
                      /\ rec.estimatedGdp = Some(Zero)
                 ELSE /\ rec.currencyCode = Some(country.currencies[1])
                      /\ IF country.currencies[1] \in DOMAIN rates
                         THEN /\ rec.exchangeRate = Some(rates[country.currencies[1]])
                              /\ rec.estimatedGdp # Null
                         ELSE /\ rec.exchangeRate = Null
                              /\ rec.estimatedGdp = Null

\* C7 witness: rows are stored of a record with a rate and of a record whose
\* first currency code the mapping lacked, and a refresh is about to
\* reconcile an entry without currencies.
C7_Witness ==
    /\ \E row \in countries : row.exchange_rate # Null
    /\ \E row \in countries : row.currency_code # Null /\ row.exchange_rate = Null
    /\ \E r \in Refreshers :
          pc[r] = "upsert" /\ countriesResponse[r][1][idx[r]].currencies = <<>>

\* The records with a rate among those reconciliation can produce.
Rated(r) == {rec \in Reconciled(r) : rec.exchangeRate # Null}

\* C8 (as claimed): a reconciled record with a rate has
\* population * 1000 / rate <= estimatedGdp < population * 2000 / rate.
C8_GdpInHalfOpenInterval ==
    \A r \in Refreshers :
       pc[r] = "upsert" =>
          \A rec \in Rated(r) :
             LET q == rec.estimatedGdp[1]
                 rate == rec.exchangeRate[1]
             IN  /\ rec.population * RandomLow * q.den <= q.num * rate
                 /\ q.num * rate < rec.population * RandomHigh * q.den

\* C8 (amended): a reconciled record with a rate has
\* population * 1000 / rate <= estimatedGdp <= population * 2000 / rate, the
\* upper bound being strict when population > 0; with population 0 the three
\* are 0.
C8_GdpInInterval ==
    \A r \in Refreshers :
       pc[r] = "upsert" =>
          \A rec \in Rated(r) :
             LET q == rec.estimatedGdp[1]
                 rate == rec.exchangeRate[1]
             IN  /\ rec.population * RandomLow * q.den <= q.num * rate
                 /\ rec.population > 0 => q.num * rate < rec.population * RandomHigh * q.den
                 /\ rec.population = 0 => q.num = 0

\* C8 witness: a refresh is about to reconcile an entry with a rate and a
\* positive population, and the row of a rated record of population 0 is
\* stored with estimated_gdp 0.
C8_Witness ==
    /\ \E r \in Refreshers :
          pc[r] = "upsert" /\ \E rec \in Rated(r) : rec.population > 0
    /\ \E row \in countries :
          row.exchange_rate # Null /\ row.population = 0 /\ row.estimated_gdp = Some(0)

\* C9 (as claimed): an upsert leaves, in place of any row whose name matches
\* case-insensitively, the row of the reconciled record, name included.
C9_UpsertOverwritesEveryField ==
    [][\A r \in Refreshers :
         (pc[r] = "upsert" /\ idx'[r] = idx[r] + 1)
         => \E rec \in Reconciled(r) :
               /\ NewRow(rec) \in written'[r]
               /\ \A w \in written'[r] :
                     SameKey(w.name, rec.name) => w = NewRow(rec)]_vars

\* C9, the part the code keeps: the upsert writes one row for the name, with
\* every column but name taken from the reconciled record, and with the
\* stored name where a row matched.
C9_UpsertOverwritesAllButName ==
    [][\A r \in Refreshers :
         (pc[r] = "upsert" /\ idx'[r] = idx[r] + 1)
         => \E rec \in Reconciled(r) :
               \A w \in written'[r] :
                  SameKey(w.name, rec.name) =>
                     /\ [w EXCEPT !.name = rec.name] = NewRow(rec)
                     /\ w.name \in {rec.name} \cup
                           {row.name : row \in {v \in View(r) : SameKey(v.name, rec.name)}}
                     /\ (\E v \in View(r) : SameKey(v.name, rec.name))
                           => \E v \in View(r) : v.name = w.name]_vars

\* C10: no two committed rows of countries have names that are equal
\* case-insensitively.
C10_NamesUniqueIgnoringCase ==
    \A a, b \in countries : Lower(a.name) = Lower(b.name) => a = b

\* C10 witness: the row stored as "Nigeria" carries the fields of the payload
\* entry "NIGERIA", and another row is stored beside it.
C10_Witness ==
    /\ \E row \in countries : row.name = "Nigeria" /\ row.currency_code = Null
    /\ Cardinality(countries) = 2

\* The refresh handler of r returns by its catch block in this step.
Aborts(r) == pc[r] = "rollback" /\ pc'[r] = "idle"

\* The unavailable-source response naming the failed source.
Unavailable(msg) ==
    [code |-> 503, error |-> "External data source unavailable", details |-> Some(msg)]

\* C11 (as claimed): a refresh that ends in failure is answered 503 with the
\* failed source's message as details when one of its two fetches failed, and
\* with the generic internal error otherwise.
C11_FailureClassified ==
    [][\A r \in Refreshers :
         Aborts(r) =>
            response' = IF error[r] \in {ErrCountries, ErrRates}
                        THEN Unavailable(error[r])
                        ELSE GenericError]_vars

\* C11, the part the code keeps: a 503 is sent only for a failed fetch and
\* names it, the success path never sends an error, and any response to
\* another failure is the generic internal error.
C11_UnavailableOnlyForFetchFailure ==
    [][\A r \in Refreshers :
         /\ (Aborts(r) /\ response'.code = 503)
               => error[r] \in {ErrCountries, ErrRates} /\ response' = Unavailable(error[r])
         /\ (Aborts(r) /\ error[r] \notin {ErrCountries, ErrRates} /\ responded'[r] = 1)
               => response' = GenericError
         /\ (pc[r] = "generate" /\ pc'[r] = "idle") => response'.code = 200]_vars

\* C12 (as claimed): a refresh that fails on a malformed body (a country
\* body that is not a sequence, a rate body without rates) is answered with
\* the unavailable-source error, and changes no stored data.
C12_MalformedAnsweredUnavailable ==
    [][\A r \in Refreshers :
         (Aborts(r) /\ error[r] \in {ErrNotIterable, ErrNoRates})
         => /\ response'.code = 503
            /\ StoreUnchanged]_vars

\* C12, the part the code keeps: a refresh that fails on a malformed body
\* changes no stored data and drops what it wrote.
C12_MalformedCommitsNothing ==
    [][\A r \in Refreshers :
         (Stepped(r) /\ error[r] \in {ErrNotIterable, ErrNoRates})
         => /\ StoreUnchanged
            /\ written'[r] = {} /\ statusWritten'[r] = NoStatusWrite]_vars

RequestNames == LookupNames \cup DeleteNames

\* Two names are equal but for the case of their letters.
EqualIgnoringCase(a, b) == Lower(a) = Lower(b)

\* A step of a delete that removed rows: countries changed and no refresh
\* handler moved.
Deleted == countries' # countries /\ \A r \in Refreshers : ~Stepped(r)

\* r commits in this step.
Commits(r) == pc[r] = "commit" /\ pc'[r] = "topQuery"

\* What GET /countries/:name and DELETE /countries/:name answer on a table.
LookupAnswers(table, name) == GetCountryBodies(Matching(table, name))
DeleteAnswer(table, name) == DeleteBody(Cardinality(Matching(table, name)))

\* C14 (as claimed): lookup and delete answer 404 'Country not found'
\* exactly when no stored name equals the given one ignoring case; a delete
\* removes exactly one record, whose name equals the given one ignoring
\* case, after which lookup and delete of that name in any letter case
\* answer 404; and a name that is not found becomes found only by the commit
\* of a refresh whose payload has it.
C14_MatchIgnoringCase ==
    [][/\ \A name \in RequestNames :
             LET present == \E row \in countries : EqualIgnoringCase(row.name, name)
             IN  /\ (NotFound \in LookupAnswers(ReadRows, name)) <=> ~present
                 /\ (DeleteAnswer(countries, name) = NotFound) <=> ~present
       /\ Deleted =>
             \E name \in DeleteNames : \E row \in countries :
                /\ EqualIgnoringCase(row.name, name)
                /\ countries' = countries \ {row}
                /\ \A v \in RequestNames :
                      EqualIgnoringCase(v, name) =>
                         /\ LookupAnswers(countries', v) = {NotFound}
                         /\ DeleteAnswer(countries', v) = NotFound
       /\ \A name \in RequestNames :
             (LookupAnswers(countries, name) = {NotFound}
              /\ LookupAnswers(countries', name) # {NotFound})
             => \E r \in Refreshers :
                   /\ Commits(r)
                   /\ Lower(name) \in CaseFolded(countriesResponse[r][1])]_vars

\* C14, the part the code keeps: the same with names compared under the
\* collation of the column, which ignores case and accents.
C14_MatchByCollation ==
    [][/\ \A name \in RequestNames :
             LET present == \E row \in countries : SameKey(row.name, name)
             IN  /\ (NotFound \in LookupAnswers(ReadRows, name)) <=> ~present
                 /\ (DeleteAnswer(countries, name) = NotFound) <=> ~present
                 /\ present => \A a \in LookupAnswers(ReadRows, name) :
                                  a.code = 200 /\ SameKey(a.country.name, name)
       /\ Deleted =>
             \E name \in DeleteNames : \E row \in countries :
                /\ SameKey(row.name, name)
                /\ countries' = countries \ {row}
                /\ \A v \in RequestNames :
                      SameKey(v, name) =>
                         /\ LookupAnswers(countries', v) = {NotFound}
                         /\ DeleteAnswer(countries', v) = NotFound
       /\ \A name \in RequestNames :
             (LookupAnswers(countries, name) = {NotFound}
              /\ LookupAnswers(countries', name) # {NotFound})
             => \E r \in Refreshers :
                   /\ Commits(r)
                   /\ \E i \in 1..Len(countriesResponse[r][1]) :
                         SameKey(countriesResponse[r][1][i].name, name)]_vars

\* A filter is supplied: the parameter is present and not empty.
Supplied(param) == param # Null /\ param # Some("")

\* The elements of a sequence.
Range(seq) == {seq[i] : i \in 1..Len(seq)}

\* C15 (as claimed): for every query, GET /countries answers 200 with
\* exactly the stored records whose region equals the region filter and
\* whose currency code equals the currency filter, for the filters
\* supplied, each once; with no such record the answer is the empty list.
C15_ListFiltersExact ==
    \A query \in ListQueries :
       LET wanted == {c \in countries :
                        /\ Supplied(query.region) => c.region = query.region
                        /\ Supplied(query.currency) => c.currency_code = query.currency}
       IN  /\ ListAnswers(ReadRows, query) # {}
           /\ \A a \in ListAnswers(ReadRows, query) :
                 /\ a.code = 200
                 /\ Range(a.body) = {CountryJson(c) : c \in wanted}
                 /\ Len(a.body) = Cardinality(wanted)

\* C15, the part the code keeps: the same with the column compared to the
\* filter under the column's collation, which ignores case and accents.
C15_ListFiltersByCollation ==
    \A query \in ListQueries :
       LET wanted == {c \in countries :
                        /\ Supplied(query.region) =>
                              c.region # Null /\ SameKey(c.region[1], query.region[1])
                        /\ Supplied(query.currency) =>
                              c.currency_code # Null
                              /\ SameKey(c.currency_code[1], query.currency[1])}
       IN  /\ ListAnswers(ReadRows, query) # {}
           /\ \A a \in ListAnswers(ReadRows, query) :
                 /\ a.code = 200
                 /\ Range(a.body) = {CountryJson(c) : c \in wanted}
                 /\ Len(a.body) = Cardinality(wanted)

\* The place of a name in the alphabet, letter case ignored.
Alphabet == <<"ghana", "japan", "nigeria", "togo">>
Place(name) == CHOOSE i \in 1..Len(Alphabet) : Alphabet[i] = Lower(name)

\* C16: for every query, the list answered holds each record the filters
\* select once, and is ordered by the sort key: under gdp_desc every
\* record's estimated_gdp is not null and >= that of any later record whose
\* estimated_gdp is not null; under gdp_asc the estimated_gdp values that are
\* not null ascend; under population_desc and population_asc the
\* populations descend and ascend; under any other or no sort key the names
\* ascend.
C16_ListSorted ==
    \A query \in ListQueries :
       \A a \in ListAnswers(ReadRows, query) :
          LET b == a.body
              n == Len(b)
              gdp(i) == b[i].estimated_gdp
          IN  /\ Range(b) = {CountryJson(c) : c \in Filtered(ReadRows, query)}
              /\ n = Cardinality(Filtered(ReadRows, query))
              /\ \A i, j \in 1..n :
                    i < j =>
                       CASE query.sort = Some("gdp_desc") ->
                               gdp(j) # Null => gdp(i) # Null /\ gdp(i)[1] >= gdp(j)[1]
                         [] query.sort = Some("gdp_asc") ->
                               (gdp(i) # Null /\ gdp(j) # Null) => gdp(i)[1] <= gdp(j)[1]
                         [] query.sort = Some("population_desc") ->
                               b[i].population >= b[j].population
                         [] query.sort = Some("population_asc") ->
                               b[i].population <= b[j].population
                         [] OTHER -> Place(b[i].name) < Place(b[j].name)

\* C16 witness: three records are stored whose order by estimated_gdp,
\* descending, is neither their order by name nor their order by
\* population, and the list last answered has them in that order.
C16_Witness ==
    /\ response \in ListAnswers(ReadRows, Query(Null, Null, Some("gdp_desc")))
    /\ Len(response.body) = 3
    /\ response.body[1].name = "Japan"
    /\ response.body[2].name = "Nigeria"
    /\ response.body[3].name = "Ghana"
    /\ response.body[3].estimated_gdp # Null
    /\ response.body[1].estimated_gdp[1] > response.body[2].estimated_gdp[1]
    /\ response.body[2].estimated_gdp[1] > response.body[3].estimated_gdp[1]
    /\ response.body[1].population < response.body[2].population

\* C17 (as claimed): under gdp_desc and under gdp_asc no record whose
\* estimated_gdp is null comes before a record whose estimated_gdp is not.
C17_NullsLast ==
    \A query \in ListQueries :
       query.sort \in {Some("gdp_desc"), Some("gdp_asc")} =>
          \A a \in ListAnswers(ReadRows, query) :
             \A i, j \in 1..Len(a.body) :
                (i < j /\ a.body[i].estimated_gdp = Null) => a.body[j].estimated_gdp = Null

\* C17, what the code does: records whose estimated_gdp is null come last
\* under gdp_desc and first under gdp_asc.
C17_NullsLastDescFirstAsc ==
    \A query \in ListQueries :
       \A a \in ListAnswers(ReadRows, query) :
          \A i, j \in 1..Len(a.body) :
             /\ (query.sort = Some("gdp_desc") /\ i < j /\ a.body[i].estimated_gdp = Null)
                   => a.body[j].estimated_gdp = Null
             /\ (query.sort = Some("gdp_asc") /\ i < j /\ a.body[j].estimated_gdp = Null)
                   => a.body[i].estimated_gdp = Null

\* The path of the artifact-retrieval request.
ImagePath == <<"countries", "image">>

\* C18 (as claimed): GET /countries/image is answered by the artifact
\* handler alone: with the summary image when it exists, otherwise with 404
\* 'Summary image not found'.
C18_ImageRouteServesArtifact ==
    Answers(ImagePath) = {ImageAnswer(summaryPng)}

\* C18, what the code does: GET /countries/image is answered as the lookup
\* of the name "image".
C18_ImageAnsweredAsLookup ==
    /\ Handler(ImagePath) = "lookup"
    /\ Answers(ImagePath) = LookupAnswers(ReadRows, "image") \cup {InternalError}
    /\ ImageAnswer(summaryPng) \notin Answers(ImagePath)

\* r has committed and has not answered yet.
Committed(r) == pc[r] \in {"topQuery", "statusRead", "generate"}

\* C19 (as claimed): table refresh_status holds one row in every state; the
\* row changes only in the commit step of a refresh, to what that refresh
\* wrote; a refresh that has committed does not fail; and a refresh answered
\* with success has committed.
C19_StatusChangesOnlyBySuccess ==
    [][/\ Cardinality(ReadStatusRows) = 1
       /\ refresh_status' # refresh_status =>
             \E r \in Refreshers : Commits(r) /\ refresh_status' = statusWritten[r][1]
       /\ \A r \in Refreshers :
             /\ Committed(r) => error'[r] = ""
             /\ (Stepped(r) /\ response'.code = 200) => pc[r] = "generate"]_vars

\* C19, the part the code keeps: one row in every state, changed only in
\* the commit step of a refresh, to what that refresh wrote, and a refresh
\* answered with success has committed; a refresh that fails before its
\* commit, a delete and the read handlers leave the row as it was.
C19_StatusChangesOnlyAtCommit ==
    [][/\ Cardinality(ReadStatusRows) = 1
       /\ refresh_status' # refresh_status =>
             \E r \in Refreshers : Commits(r) /\ refresh_status' = statusWritten[r][1]
       /\ \A r \in Refreshers :
             (Stepped(r) /\ response'.code = 200) => pc[r] = "generate"]_vars

\* The entry of a payload the last upsert under a name is made from.
LastEntry(data, name) ==
    LET last == CHOOSE i \in 1..Len(data) :
                   /\ SameKey(data[i].name, name)
                   /\ \A j \in (i + 1)..Len(data) : ~SameKey(data[j].name, name)
    IN  data[last]

\* The columns a refresh on the same source data writes the same way.
Projection(row) ==
    [currency_code |-> row.currency_code,
     exchange_rate |-> row.exchange_rate,
     population |-> row.population]

\* The store is as a refresh on data and rates leaves it: every name of data
\* is stored with the columns reconciled from its last entry, and the total
\* is the number of rows.
SettledOn(table, status, data, rates) ==
    /\ \A i \in 1..Len(data) :
          \E row \in table :
             /\ SameKey(row.name, data[i].name)
             /\ Projection(row) =
                   Projection(NewRow(Reconcile(LastEntry(data, data[i].name),
                                               rates, RandomLow)))
    /\ status.total_countries = Cardinality(table)

\* C20: with refreshes running one after another, a refresh that commits
\* leaves the store settled on its payload and rate mapping; and a commit on
\* a store already settled on them (as the first of two refreshes on
\* identical source data leaves it) keeps the set of stored names, every
\* record's currency_code, exchange_rate and population, and
\* total_countries.
C20_RefreshTwiceSameRecords ==
    [][\A r \in Refreshers :
         Commits(r) =>
            LET data == countriesResponse[r][1]
                rates == exchangeRates[r][1]
            IN  /\ SettledOn(countries', refresh_status', data, rates)
                /\ SettledOn(countries, refresh_status, data, rates) =>
                      /\ {row.name : row \in countries'} = {row.name : row \in countries}
                      /\ \A row \in countries : \E after \in countries' :
                            /\ after.name = row.name
                            /\ Projection(after) = Projection(row)
                      /\ Cardinality(countries') = Cardinality(countries)
                      /\ refresh_status'.total_countries =
                            refresh_status.total_countries]_vars

\* C20 witness: a refresh is about to commit on a store settled on its
\* payload and rates, under a name stored in another letter case, with an
\* estimated_gdp that differs from the stored one and the other columns
\* equal.
C20_Witness ==
    /\ pc[1] = "commit"
    /\ cycles = MaxCycles
    /\ SettledOn(countries, refresh_status, countriesResponse[1][1], exchangeRates[1][1])
    /\ \E w \in written[1] : \E row \in countries :
          /\ w.name = row.name
          /\ row.name # countriesResponse[1][1][Len(countriesResponse[1][1])].name
          /\ Projection(w) = Projection(row)
          /\ w.estimated_gdp # Null /\ row.estimated_gdp # Null
          /\ w.estimated_gdp # row.estimated_gdp

\* C21: a record reconciled from an entry with currency descriptors has the
\* code of the first descriptor as currencyCode; its exchangeRate is the
\* rate the mapping has for that code, and its estimatedGdp is population *
\* multiplier / that rate, when the mapping has the code; both are null when
\* it has not, whatever the later descriptors are.
C21_FirstCurrencyOnly ==
    \A r \in Refreshers :
       (pc[r] = "upsert" /\ ~ReconcileThrows(r)) =>
          LET country == countriesResponse[r][1][idx[r]]
              rates == RatesRead(r)
          IN  country.currencies # <<>> =>
                 LET first == country.currencies[1]
                 IN  \A rec \in Reconciled(r) :
                        /\ rec.currencyCode = Some(first)
                        /\ first \in DOMAIN rates =>
                              /\ rec.exchangeRate = Some(rates[first])
                              /\ \E m \in RandomMultipliers :
                                    rec.estimatedGdp =
                                       Some([num |-> OrZero(country.population) * m,
                                             den |-> rates[first]])
                        /\ first \notin DOMAIN rates =>
                              /\ rec.exchangeRate = Null
                              /\ rec.estimatedGdp = Null

\* C21 witness: a refresh has committed the row of an entry whose first
\* currency code the mapping lacked and whose second it had: the row has
\* the first code and neither rate nor estimated_gdp.
C21_Witness ==
    \E r \in Refreshers :
       /\ pc[r] = "topQuery"
       /\ \E i \in 1..Len(countriesResponse[r][1]) :
             /\ countriesResponse[r][1][i] = Ghana
             /\ Len(Ghana.currencies) = 2
       /\ \E row \in countries :
             /\ row.name = "Ghana"
             /\ row.currency_code = Some(Ghana.currencies[1])
             /\ row.exchange_rate = Null
             /\ row.estimated_gdp = Null

\* C22: with refreshes running one after another and no other writer, the
\* total_countries a refresh commits is the number of rows of countries
\* right after its commit: the rows stored before under names its payload
\* lacks, and one row for every name of its payload.
C22_TotalIsStoreSizeAtCommit ==
    [][\A r \in Refreshers :
         Commits(r) =>
            /\ refresh_status'.total_countries = Cardinality(countries')
            /\ Cardinality(countries') =
                  Cardinality(PayloadKeys(countriesResponse[r][1])
                              \cup StoredKeys(countries))]_vars

\* C22 witness: a refresh of two names has just committed a total of three,
\* the store holding its two rows and a row of an earlier refresh whose name
\* its payload lacks.
C22_Witness ==
    /\ pc[1] = "topQuery"
    /\ Cardinality(PayloadKeys(countriesResponse[1][1])) = 2
    /\ \E row \in countries : Weight(row.name) \notin PayloadKeys(countriesResponse[1][1])
    /\ Cardinality(countries) = 3
    /\ refresh_status.total_countries = 3
    /\ refresh_status.last_refreshed_at # Some(0)

\* The state of the refresh state machine a handler is in.
Phase(at) ==
    CASE at = "idle"                                  -> "Idle"
      [] at \in {"fetchCountries", "fetchRates"}      -> "Fetching"
      [] at = "upsert"                                -> "Reconciling"
      [] at \in {"count", "updateStatus", "commit"}   -> "Persisting"
      [] at \in {"topQuery", "statusRead", "generate"} -> "ArtifactGeneration"
      [] OTHER                                        -> "Failed"

\* The moves of the two paths of the state machine, a payload without
\* entries passing from Fetching to Persisting.
SuccessPath ==
    {<<"Idle", "Fetching">>, <<"Fetching", "Fetching">>,
     <<"Fetching", "Reconciling">>, <<"Fetching", "Persisting">>,
     <<"Reconciling", "Reconciling">>, <<"Reconciling", "Persisting">>,
     <<"Persisting", "Persisting">>, <<"Persisting", "ArtifactGeneration">>,
     <<"ArtifactGeneration", "ArtifactGeneration">>,
     <<"ArtifactGeneration", "Idle">>}
AbortPath == {<<"Fetching", "Failed">>, <<"Failed", "Idle">>}

\* The moves to Failed the handler makes besides: a statement of the store
\* is rejected, or an entry cannot be reconciled.
StoreAborts ==
    {<<"Reconciling", "Failed">>, <<"Persisting", "Failed">>,
     <<"ArtifactGeneration", "Failed">>}

\* What holds of a step of r whatever the paths are: reconciliation starts
\* only when the second fetch has answered, no row is written while
\* fetching, the reads for the generator follow the commit step and the
\* generator follows them, a cycle that enters Failed was not at the
\* generator, and the summary image is written only by a handler at the
\* generator, which has not failed.
CycleOrdered(r) ==
    /\ (Phase(pc[r]) = "Fetching" /\ Phase(pc'[r]) \in {"Reconciling", "Persisting"})
          => pc[r] = "fetchRates" /\ countriesResponse[r] # Null
    /\ Phase(pc[r]) \in {"Idle", "Fetching"} =>
          written[r] = {} /\ statusWritten[r] = NoStatusWrite
    /\ (pc'[r] = "topQuery" /\ pc[r] # "topQuery") => Commits(r)
    /\ (pc'[r] = "statusRead" /\ pc[r] # "statusRead") => pc[r] = "topQuery"
    /\ (pc'[r] = "generate" /\ pc[r] # "generate") => pc[r] = "statusRead"
    /\ pc[r] = "generate" => error[r] = "" /\ pc'[r] \in {"generate", "idle"}
    /\ pc'[r] = "generate" => error'[r] = ""

\* The summary image is written only in a step of a handler at the
\* generator.
GeneratorAfterCommit ==
    summaryPng' # summaryPng =>
       \E r \in Refreshers : pc[r] = "generate" /\ pc'[r] = "idle" /\ error[r] = ""

\* C23 (as claimed): every step of a refresh handler is a move of the
\* success path or of the abort path Idle, Fetching, Failed, Idle; nothing
\* is reconciled or written before both fetches have answered; and the
\* generator runs only after the commit of its cycle, never in a cycle that
\* rolled back.
C23_TwoPaths ==
    [][/\ \A r \in Refreshers :
             /\ Stepped(r) =>
                   <<Phase(pc[r]), Phase(pc'[r])>> \in SuccessPath \cup AbortPath
             /\ CycleOrdered(r)
       /\ GeneratorAfterCommit]_vars

\* C23 (amended): the same, with the moves to Failed from Reconciling, from
\* Persisting and from the reads that follow the commit as well.
C23_PathsWithStoreAborts ==
    [][/\ \A r \in Refreshers :
             /\ Stepped(r) =>
                   <<Phase(pc[r]), Phase(pc'[r])>>
                      \in SuccessPath \cup AbortPath \cup StoreAborts
             /\ CycleOrdered(r)
       /\ GeneratorAfterCommit]_vars

\* C23 witness: the summary image of a cycle that succeeded exists, and a
\* later cycle has left Reconciling for Failed on a rejected upsert.
C23_Witness ==
    /\ summaryPng
    /\ \E r \in Refreshers : pc[r] = "rollback" /\ error[r] = ErrUpsert

\* The list is at most TopLimit records of the table with estimated_gdp not
\* null, each once, in descending order of estimated_gdp, and no record of
\* the table left out has an estimated_gdp above one of the list.
IsTopList(list, table) ==
    LET rated == {row \in table : row.estimated_gdp # Null}
        shown == {list[i].name : i \in 1..Len(list)}
    IN  /\ Len(list) <= TopLimit
        /\ Len(list) = Min(Cardinality(rated), TopLimit)
        /\ \A i \in 1..Len(list) :
              /\ list[i].estimated_gdp # Null
              /\ \E row \in rated :
                    row.name = list[i].name /\ row.estimated_gdp = list[i].estimated_gdp
        /\ \A i, j \in 1..Len(list) :
              i < j => /\ list[i].name # list[j].name
                       /\ list[i].estimated_gdp[1] >= list[j].estimated_gdp[1]
        /\ \A row \in rated :
              row.name \notin shown =>
                 \A i \in 1..Len(list) : list[i].estimated_gdp[1] >= row.estimated_gdp[1]

\* What holds of the generator's input whatever else runs: the list is the
\* top list of the store when the query ran, the total is the one the
\* refresh committed, the timestamp is the one stored when it was read.
HandedAsRead(r) ==
    /\ (pc[r] = "topQuery" /\ pc'[r] = "statusRead") =>
          IsTopList(topCountries'[r], countries)
    /\ Commits(r) => refresh_status'.total_countries = totalCountries[r]
    /\ Committed(r) => totalCountries'[r] \in {totalCountries[r], 0}
    /\ (pc[r] = "statusRead" /\ pc'[r] = "generate") =>
          statusResult'[r] = refresh_status.last_refreshed_at

\* C24 (as claimed): the list handed to the generator is the top list of
\* the store, the total handed is the one the refresh committed, and the
\* timestamp handed is the one it committed: the status row keeps the
\* timestamp from the commit of the refresh until the refresh has read it.
C24_GeneratorGetsCommitted ==
    [][\A r \in Refreshers :
         /\ HandedAsRead(r)
         /\ pc[r] \in {"topQuery", "statusRead"} =>
               refresh_status'.last_refreshed_at = refresh_status.last_refreshed_at]_vars

\* C24, the part the code keeps: the list, the total and the timestamp as
\* they were read.
C24_GeneratorGetsAsRead ==
    [][\A r \in Refreshers : HandedAsRead(r)]_vars

\* C25 (as claimed): the commit of a refresh leaves every stored record
\* whose name, letter case ignored, is not a name of the payload stored with
\* all its fields as they were, and removes no name from the store.
C25_OthersKeptIgnoringCase ==
    [][\A r \in Refreshers :
         Commits(r) =>
            /\ \A row \in countries :
                  Lower(row.name) \notin CaseFolded(countriesResponse[r][1])
                     => row \in countries'
            /\ {row.name : row \in countries} \subseteq {row.name : row \in countries'}]_vars

\* C25, the part the code keeps: the same for the stored records whose name
\* matches no name of the payload under the collation of the name column;
\* and the names stored after the commit are those stored before and those
\* of the payload, one row each.
C25_OthersKeptByCollation ==
    [][\A r \in Refreshers :
         Commits(r) =>
            /\ \A row \in countries :
                  Weight(row.name) \notin PayloadKeys(countriesResponse[r][1])
                     => row \in countries'
            /\ {row.name : row \in countries} \subseteq {row.name : row \in countries'}
            /\ StoredKeys(countries') =
                  StoredKeys(countries) \cup PayloadKeys(countriesResponse[r][1])
            /\ Cardinality(countries') = Cardinality(StoredKeys(countries'))]_vars

\* C26 (as claimed): with deletes arriving at any point of a refresh cycle,
\* the total_countries the refresh commits is the number of rows of
\* countries right after its commit.
C26_TotalIsStoreSizeDespiteDeletes ==
    [][Commits(1) => refresh_status'.total_countries = Cardinality(countries')]_vars

\* C26, what the code does: the total committed is the number counted, and
\* it exceeds the number of rows right after the commit by the number of
\* rows deleted between the count and the commit.
C26_TotalIsCountBeforeDeletes ==
    [][/\ Commits(1) =>
             /\ refresh_status'.total_countries = totalCountries[1]
             /\ refresh_status'.total_countries >= Cardinality(countries')
       /\ (pc[1] = "count" /\ pc'[1] = "updateStatus") =>
             totalCountries'[1] = Cardinality(Overlay(countries, written[1]))
       /\ (pc[1] \in {"updateStatus", "commit"} /\ ~Deleted) =>
             Cardinality(Overlay(countries', written'[1]))
                = Cardinality(Overlay(countries, written[1]))]_vars

\* r is answered with an error response in this step.
AnsweredError(r) == Aborts(r) /\ response'.code \in {500, 503}

\* C27 (as claimed): only the commit step of a refresh changes the store on
\* its behalf, and a refresh that has committed is not answered with an
\* error response: no read that follows the commit takes it to the catch
\* block.
C27_ErrorMeansStoreUnchanged ==
    [][\A r \in Refreshers :
         /\ (Stepped(r) /\ ~Commits(r)) => StoreUnchanged
         /\ Committed(r) => pc'[r] # "rollback"
         /\ AnsweredError(r) => error[r] \notin {ErrTopQuery, ErrStatusRead}]_vars

\* C27, the part the code keeps: only the commit step of a refresh changes
\* the store on its behalf, and a refresh answered with an error response
\* after a failure other than that of the two reads following the commit
\* has not committed.
C27_ErrorBeforeCommitUnchanged ==
    [][\A r \in Refreshers :
         /\ (Stepped(r) /\ ~Commits(r)) => StoreUnchanged
         /\ (pc'[r] = "rollback" /\ pc[r] # "rollback") =>
               (Committed(r) <=> error'[r] \in {ErrTopQuery, ErrStatusRead})
         /\ (pc[r] = "rollback" /\ error[r] \notin {ErrTopQuery, ErrStatusRead}) =>
               /\ pc'[r] \in {"rollback", "idle"}
               /\ Stepped(r) => written'[r] = {} /\ statusWritten'[r] = NoStatusWrite]_vars

\* C28 (as claimed): a refresh handler that returns has sent exactly one
\* response and released its connection, whichever way it went.
C28_OneResponseAndRelease ==
    [][\A r \in Refreshers :
         (Stepped(r) /\ pc'[r] = "idle") => responded'[r] = 1 /\ released'[r]]_vars

\* C28, the part the code keeps: a handler that returns has released its
\* connection and sent one response, or none when its rollback was
\* rejected; it holds the connection while it runs.
C28_ReleaseAndAtMostOneResponse ==
    [][\A r \in Refreshers :
         /\ (Stepped(r) /\ pc'[r] = "idle") =>
               /\ released'[r]
               /\ responded'[r] <= 1
               /\ responded'[r] = 0 => pc[r] = "rollback"
         /\ pc'[r] # "idle" => ~released'[r] /\ responded'[r] = 0]_vars

\* C28, the part the code keeps: every refresh cycle ends and releases its
\* connection.
C28_CycleEnds == (pc[1] # "idle") ~> (pc[1] = "idle" /\ released[1])

====
